---- MODULE Spec2Model ----
(***************************************************************************)
(* Model of lib/util/profile/environment.js: the Environment value store   *)
(* (constructor, per-parameter accessors, toJSON, realm URLs, auth config) *)
(* and the addAccount / acquireToken continuation chains.                  *)
(*                                                                         *)
(* A JavaScript string is a sequence of tokens (a token stands for a run   *)
(* of characters with no URL delimiter in it); undefined, null, false and  *)
(* true are reserved one-token sequences, so every JS value of the model   *)
(* is a sequence of strings and any two can be compared.                   *)
(***************************************************************************)
EXTENDS Integers, Sequences, FiniteSets, TLC

\* ------------------------------------------------------------ JS values
Undef == <<"<undefined>">>
Null == <<"<null>">>
False == <<"<false>">>
True == <<"<true>">>
EmptyStr == <<>>

\* JS truthiness of a value of the model.
Truthy(v) == v \notin {Undef, Null, False, EmptyStr}

\* JS a || b.
Or(a, b) == IF Truthy(a) THEN a ELSE b

\* ------------------------------------------------------------ registry
\* Environment.parameters: name and environmentVariable of each descriptor.
parameters ==
  << [name |-> "portalUrl", environmentVariable |-> "AZURE_PORTAL_URL"],
     [name |-> "publishingProfileUrl", environmentVariable |-> "AZURE_PUBLISHINGPROFILE_URL"],
     [name |-> "managementEndpointUrl", environmentVariable |-> "AZURE_MANAGEMENTENDPOINT_URL"],
     [name |-> "resourceManagerEndpointUrl", environmentVariable |-> "AZURE_RESOURCEMANAGERENDPOINT_URL"],
     [name |-> "sqlManagementEndpointUrl", environmentVariable |-> "AZURE_SQL_MANAGEMENTENDPOINT_URL"],
     [name |-> "sqlServerHostnameSuffix", environmentVariable |-> "AZURE_SQL_SERVER_HOSTNAME_SUFFIX"],
     [name |-> "activeDirectoryEndpointUrl", environmentVariable |-> "AZURE_ACTIVEDIRECTORY_ENDPOINT_URL"],
     [name |-> "activeDirectoryResourceId", environmentVariable |-> "AZURE_ACTIVEDIRECTORY_RESOURCE_ID"],
     [name |-> "commonTenantName", environmentVariable |-> "AZURE_ACTIVEDIRECTORY_COMMON_TENANT_NAME"],
     [name |-> "galleryEndpointUrl", environmentVariable |-> "AZURE_GALLERY_ENDPOINT_URL"],
     [name |-> "activeDirectoryGraphResourceId", environmentVariable |-> "AZURE_ACTIVEDIRECTORY_GRAPH_RESOURCE_ID"],
     [name |-> "activeDirectoryGraphApiVersion", environmentVariable |-> "AZURE_ACTIVEDIRECTORY_GRAPH_API_VERSION"] >>

\* _.pluck(Environment.parameters, 'name')
ParamNames == {parameters[i].name : i \in DOMAIN parameters}

EnvVarNames == {parameters[i].environmentVariable : i \in DOMAIN parameters}

\* The environment variable the descriptor named p is bound to.
EnvVarOf(p) ==
  parameters[CHOOSE i \in DOMAIN parameters : parameters[i].name = p].environmentVariable

\* The keys an object of the model can hold: name plus the registered parameters.
\* A key holding Undef is a key the object does not have.
Keys == {"name"} \cup ParamNames

EmptyObject == [k \in Keys |-> Undef]

\* An object literal: the given fields, every other key absent.
Obj(fields) == [k \in Keys |-> IF k \in DOMAIN fields THEN fields[k] ELSE Undef]

\* nulls(properties): an object holding null under each property.
nulls(properties) == [k \in properties |-> Null]

\* _.defaults(obj, source): fills the keys obj does not have from source.
defaults(obj, source) ==
  [k \in Keys |-> IF k \in DOMAIN source /\ obj[k] = Undef THEN source[k] ELSE obj[k]]

\* _.extend(obj, source): copies every key source has over obj.
extend(obj, source) ==
  [k \in Keys |-> IF source[k] # Undef THEN source[k] ELSE obj[k]]

\* ------------------------------------------------------------ bounds
\* Heap objects (bundles and toJSON results) and Environment instances created.
MaxObjs == 2
MaxEnvs == 2

\* Writes (E.p = value) made in one run.
MaxSets == 2

\* ------------------------------------------------------------ state
VARIABLES
  heap,        \* the JS heap: object id -> object (bundles, which become value stores)
  jsonOf,      \* per heap object: the Environment whose toJSON() result it still is, or 0
  envs,        \* the Environment instances: [name, values (a heap object id)]
  processEnv,  \* process.env restricted to the registered environment variables
  nsets,       \* the writes made so far
  ret,         \* the last operation: what was called and what it returned or threw
  calls,       \* addAccount / acquireToken invocations: arguments, closure, position
  collab,      \* per invocation: the collaborator calls made and what each reported
  cbs          \* per invocation: the invocations of the caller's callback

vars == <<heap, jsonOf, envs, processEnv, nsets, ret, calls, collab, cbs>>

storeVars == <<heap, jsonOf, envs, processEnv, nsets>>
loginVars == <<calls, collab, cbs>>

\* ------------------------------------------------------------ sample inputs
\* Environment.publicEnvironments[0]: the bundle the AzureCloud entry is built from.
AzureCloudData ==
  Obj([name |-> <<"AzureCloud">>,
       portalUrl |-> <<"http://go.microsoft.com/fwlink/", "?", "LinkId", "=", "254433">>,
       publishingProfileUrl |-> <<"http://go.microsoft.com/fwlink/", "?", "LinkId", "=", "254432">>,
       managementEndpointUrl |-> <<"https://management.core.windows.net">>,
       resourceManagerEndpointUrl |-> <<"https://management.azure.com/">>,
       sqlManagementEndpointUrl |-> <<"https://management.core.windows.net:8443/">>,
       sqlServerHostnameSuffix |-> <<".database.windows.net">>,
       galleryEndpointUrl |-> <<"https://gallery.azure.com/">>,
       activeDirectoryEndpointUrl |-> <<"https://login.windows.net">>,
       activeDirectoryResourceId |-> <<"https://management.core.windows.net/">>,
       commonTenantName |-> <<"common">>,
       activeDirectoryGraphResourceId |-> <<"https://graph.windows.net/">>,
       activeDirectoryGraphApiVersion |-> <<"2013-04-05">>])

\* A caller's bundle for a private cloud: a portal URL that already carries a
\* whr parameter and a fragment, one auth endpoint, everything else omitted.
CustomData ==
  Obj([name |-> <<"custom">>,
       portalUrl |-> <<"https://portal.example/", "?", "a", "=", "1", "&", "whr", "=", "old.example", "#", "frag">>,
       activeDirectoryEndpointUrl |-> <<"https://login.example">>])

\* The bundles a caller hands to the constructor.
Bundles == {AzureCloudData, CustomData}

\* The values a caller writes, and the parameters written.
X == <<"x">>
SetValues == {Null, X}
SetParams == {"portalUrl", "publishingProfileUrl"}

\* The parameters read.
GetParams == SetParams \cup {"commonTenantName"}

\* The environment variables set or cleared while the program runs, and to what.
EnvVarValues == {Undef, EmptyStr, <<"https://env.example/", "?", "e", "=", "2">>}
VariedEnvVars == {"AZURE_PORTAL_URL"}

\* The realms passed to getPortalUrl / getPublishingProfileUrl.
Realms == {Undef, EmptyStr, <<"contoso.com">>}

\* ------------------------------------------------------------ accessors
\* util.format(<the endpoint-not-defined message>, self.name)
EndpointError(p) ==
  <<"<Error>", "The endpoint field ", p,
    " is not defined in this environment. Either this feature is not supported or the endpoint needs to be set using 'azure account env set'">>

\* No AuthConfig.
NoCfg == [authorityUrl |-> Undef, tenantId |-> Undef, resourceId |-> Undef, clientId |-> Undef]

Returned(v) == [threw |-> FALSE, val |-> v]
Thrown(err) == [threw |-> TRUE, val |-> err]

\* The object `values` of environment e (the getter of the values property).
values(e) == heap[envs[e].values]

\* The getter with the two layers swapped: the stored value shadows the variable.
getStoredFirst(e, p) ==
  LET val == Or(values(e)[p], processEnv[EnvVarOf(p)])
  IN IF val = Null THEN Thrown(EndpointError(p)) ELSE Returned(val)

\* propertyDescriptor(env).get for the parameter named p, on environment e.
get(e, p) ==
  LET val == Or(processEnv[EnvVarOf(p)], values(e)[p])
  IN IF val = Null THEN Thrown(EndpointError(p)) ELSE Returned(val)

\* The shape of ret.
\* op: the operation; env, key, arg, arg2: what it was called on and with; obj: the heap
\* object it took or made; given: for a construction, the bundle as the caller
\* passed it; src: for a construction, the Environment whose toJSON() result the
\* bundle was (0: none); threw, val: how it ended (the value returned or the error
\* thrown); cfg: the AuthConfig returned, for the operations that derive one.
Ret(op, e, key, arg, obj, given, src, out) ==
  [op |-> op, env |-> e, key |-> key, arg |-> arg, arg2 |-> Undef, obj |-> obj,
   given |-> given, src |-> src, threw |-> out.threw, val |-> out.val,
   cfg |-> IF "cfg" \in DOMAIN out THEN out.cfg ELSE NoCfg]

NoOut == Returned(Undef)

\* ------------------------------------------------------------ store operations
\* A caller builds a bundle (the envData it is about to pass to the constructor).
NewBundle(d) ==
  /\ Len(heap) < MaxObjs
  /\ heap' = Append(heap, d)
  /\ jsonOf' = Append(jsonOf, 0)
  /\ ret' = Ret("bundle", 0, "", Undef, Len(heap) + 1, EmptyObject, 0, NoOut)
  /\ UNCHANGED <<envs, processEnv, nsets, loginVars>>

\* The constructor without its _.defaults call: unsupplied parameters stay absent.
ConstructedValuesNoDefaults(envData) == envData

\* The object the constructor keeps as `values`, after _.defaults has run on it.
ConstructedValues(envData) == defaults(envData, nulls(ParamNames))

\* new Environment(envData), envData being heap object o.
Construct(o) ==
  /\ Len(envs) < MaxEnvs
  /\ o \in DOMAIN heap
  /\ envs' = Append(envs, [name |-> heap[o].name, values |-> o])
  /\ heap' = [heap EXCEPT ![o] = ConstructedValues(heap[o])]
  /\ jsonOf' = [jsonOf EXCEPT ![o] = 0]
  /\ ret' = Ret("construct", Len(envs) + 1, "", Undef, o, heap[o], jsonOf[o], NoOut)
  /\ UNCHANGED <<processEnv, nsets, loginVars>>

\* Reading E.p.
Get(e, p) ==
  /\ e \in DOMAIN envs
  /\ ret' = Ret("get", e, p, Undef, 0, EmptyObject, 0, get(e, p))
  /\ UNCHANGED <<storeVars, loginVars>>

\* The heap after propertyDescriptor(env).set(value) for parameter p on e.
set(e, p, value) == [heap EXCEPT ![envs[e].values][p] = value]

\* Writing E.p = value.
Set(e, p, value) ==
  /\ e \in DOMAIN envs
  /\ nsets < MaxSets
  /\ nsets' = nsets + 1
  /\ heap' = set(e, p, value)
  /\ jsonOf' = [o \in DOMAIN jsonOf |->
                  IF o = envs[e].values \/ jsonOf[o] = 0
                     \/ envs[jsonOf[o]].values = envs[e].values
                  THEN 0 ELSE jsonOf[o]]
  /\ ret' = Ret("set", e, p, value, 0, EmptyObject, 0, NoOut)
  /\ UNCHANGED <<envs, processEnv, loginVars>>

\* toJSON reading each parameter through its accessor's precedence rule instead
\* of taking the stored values.
toJSONResolved(e) ==
  extend(Obj([name |-> envs[e].name]),
         [k \in Keys |-> IF k \in ParamNames
                         THEN Or(processEnv[EnvVarOf(k)], values(e)[k])
                         ELSE values(e)[k]])

\* What toJSON() of environment e returns.
toJSON(e) == extend(Obj([name |-> envs[e].name]), values(e))

\* E.toJSON(): the result is a new object.
ToJSON(e) ==
  /\ e \in DOMAIN envs
  /\ Len(heap) < MaxObjs
  /\ heap' = Append(heap, toJSON(e))
  /\ jsonOf' = Append(jsonOf, e)
  /\ ret' = Ret("toJSON", e, "", Undef, Len(heap) + 1, EmptyObject, 0, NoOut)
  /\ UNCHANGED <<envs, processEnv, nsets, loginVars>>

\* The process environment changes (the user exports or clears a variable).
SetProcessEnv(ev, v) ==
  /\ processEnv' = [processEnv EXCEPT ![ev] = v]
  /\ ret' = Ret("env", 0, ev, v, 0, EmptyObject, 0, NoOut)
  /\ UNCHANGED <<heap, jsonOf, envs, nsets, loginVars>>

\* ------------------------------------------------------------ url, querystring
\* The first position of token t in s, or 0.
RECURSIVE IndexFrom(_, _, _)
IndexFrom(s, t, i) ==
  IF i > Len(s) THEN 0 ELSE IF s[i] = t THEN i ELSE IndexFrom(s, t, i + 1)

IndexOf(s, t) == IndexFrom(s, t, 1)

\* s.split(t)
RECURSIVE Split(_, _)
Split(s, t) ==
  LET i == IndexOf(s, t)
  IN IF i = 0 THEN <<s>>
     ELSE <<SubSeq(s, 1, i - 1)>> \o Split(SubSeq(s, i + 1, Len(s)), t)

\* Assigning query[k] = v: an existing key keeps its place, a new one goes last.
QueryPut(query, k, v) ==
  IF \E i \in DOMAIN query : query[i].k = k
  THEN [i \in DOMAIN query |-> IF query[i].k = k THEN [k |-> k, v |-> v] ELSE query[i]]
  ELSE Append(query, [k |-> k, v |-> v])

\* querystring.parse: the key=value parts between the & separators, in order
\* (a key is split from its value at the first =; an empty part is skipped).
RECURSIVE QueryOfParts(_)
QueryOfParts(parts) ==
  IF parts = <<>> THEN <<>>
  ELSE LET part == Head(parts)
           i == IndexOf(part, "=")
           k == IF i = 0 THEN part ELSE SubSeq(part, 1, i - 1)
           v == IF i = 0 THEN EmptyStr ELSE SubSeq(part, i + 1, Len(part))
           rest == QueryOfParts(Tail(parts))
       IN IF part = <<>> THEN rest ELSE <<[k |-> k, v |-> v]>> \o rest

querystringParse(qs) == QueryOfParts(Split(qs, "&"))

\* querystring.stringify: k=v joined by & (the tokens hold nothing to escape).
RECURSIVE querystringStringify(_)
querystringStringify(query) ==
  IF query = <<>> THEN <<>>
  ELSE Head(query).k \o <<"=">> \o Head(query).v
       \o (IF Tail(query) = <<>> THEN <<>> ELSE <<"&">> \o querystringStringify(Tail(query)))

\* url.parse(targetUrl, true): what precedes the query (protocol, host, path),
\* the search string with its ?, the parsed query, the fragment with its #.
urlParse(targetUrl) ==
  LET h == IndexOf(targetUrl, "#")
      beforeHash == IF h = 0 THEN targetUrl ELSE SubSeq(targetUrl, 1, h - 1)
      q == IndexOf(beforeHash, "?")
  IN [base |-> IF q = 0 THEN beforeHash ELSE SubSeq(beforeHash, 1, q - 1),
      search |-> IF q = 0 THEN EmptyStr ELSE SubSeq(beforeHash, q, Len(beforeHash)),
      query |-> IF q = 0 THEN <<>>
                ELSE querystringParse(SubSeq(beforeHash, q + 1, Len(beforeHash))),
      hash |-> IF h = 0 THEN EmptyStr ELSE SubSeq(targetUrl, h, Len(targetUrl))]

\* url.format(urlObj): search when the object has one, else the query stringified.
urlFormat(urlObj) ==
  LET query == querystringStringify(urlObj.query)
      search == IF Truthy(urlObj.search) THEN urlObj.search
                ELSE IF query # <<>> THEN <<"?">> \o query ELSE EmptyStr
  IN urlObj.base \o search \o urlObj.hash

\* addRealm without its `delete urlObj.search`: url.format then prefers the old search.
RealmUrlObjKeepSearch(targetUrl, realm) ==
  LET urlObj == urlParse(targetUrl)
  IN [urlObj EXCEPT !.query = QueryPut(urlObj.query, <<"whr">>, realm)]

\* The urlObj addRealm hands to url.format: search deleted, query.whr assigned.
RealmUrlObj(targetUrl, realm) ==
  LET urlObj == urlParse(targetUrl)
  IN [urlObj EXCEPT !.search = Undef, !.query = QueryPut(urlObj.query, <<"whr">>, realm)]

addRealm(targetUrl, realm) ==
  IF Truthy(realm) THEN urlFormat(RealmUrlObj(targetUrl, realm)) ELSE targetUrl

\* addRealm(this.<p>, realm): the read of this.<p> may throw.
RealmUrl(e, p, realm) ==
  LET r == get(e, p)
  IN IF r.threw THEN r ELSE Returned(addRealm(r.val, realm))

getPortalUrl(e, realm) == RealmUrl(e, "portalUrl", realm)

getPublishingProfileUrl(e, realm) == RealmUrl(e, "publishingProfileUrl", realm)

GetPortalUrl(e, realm) ==
  /\ e \in DOMAIN envs
  /\ ret' = Ret("getPortalUrl", e, "portalUrl", realm, 0, EmptyObject, 0, getPortalUrl(e, realm))
  /\ UNCHANGED <<storeVars, loginVars>>

GetPublishingProfileUrl(e, realm) ==
  /\ e \in DOMAIN envs
  /\ ret' = Ret("getPublishingProfileUrl", e, "publishingProfileUrl", realm, 0, EmptyObject, 0,
                getPublishingProfileUrl(e, realm))
  /\ UNCHANGED <<storeVars, loginVars>>

\* ------------------------------------------------------------ auth config
\* constants.XPLAT_CLI_CLIENT_ID
XPLAT_CLI_CLIENT_ID == <<"XPLAT_CLI_CLIENT_ID">>

\* getAuthConfig taking the tenant from the environment whatever it is given.
getAuthConfigCommonTenant(e, tenantIdArg, resourceIdArg) ==
  LET tenantId == get(e, "commonTenantName")
      resourceId == IF ~Truthy(resourceIdArg) THEN get(e, "activeDirectoryResourceId")
                    ELSE Returned(resourceIdArg)
      authorityUrl == get(e, "activeDirectoryEndpointUrl")
  IN IF tenantId.threw THEN [threw |-> TRUE, val |-> tenantId.val, cfg |-> NoCfg]
     ELSE IF resourceId.threw THEN [threw |-> TRUE, val |-> resourceId.val, cfg |-> NoCfg]
     ELSE IF authorityUrl.threw THEN [threw |-> TRUE, val |-> authorityUrl.val, cfg |-> NoCfg]
     ELSE [threw |-> FALSE, val |-> Undef,
           cfg |-> [authorityUrl |-> authorityUrl.val, tenantId |-> tenantId.val,
                    resourceId |-> resourceId.val, clientId |-> XPLAT_CLI_CLIENT_ID]]

\* Environment.prototype.getAuthConfig on environment e: the AuthConfig, or the
\* error of the first parameter read that throws.
getAuthConfig(e, tenantIdArg, resourceIdArg) ==
  LET tenantId == IF ~Truthy(tenantIdArg) THEN get(e, "commonTenantName")
                  ELSE Returned(tenantIdArg)
      resourceId == IF ~Truthy(resourceIdArg) THEN get(e, "activeDirectoryResourceId")
                    ELSE Returned(resourceIdArg)
      authorityUrl == get(e, "activeDirectoryEndpointUrl")
  IN IF tenantId.threw THEN [threw |-> TRUE, val |-> tenantId.val, cfg |-> NoCfg]
     ELSE IF resourceId.threw THEN [threw |-> TRUE, val |-> resourceId.val, cfg |-> NoCfg]
     ELSE IF authorityUrl.threw THEN [threw |-> TRUE, val |-> authorityUrl.val, cfg |-> NoCfg]
     ELSE [threw |-> FALSE, val |-> Undef,
           cfg |-> [authorityUrl |-> authorityUrl.val, tenantId |-> tenantId.val,
                    resourceId |-> resourceId.val, clientId |-> XPLAT_CLI_CLIENT_ID]]

GetAuthConfig(e, tenantId, resourceId) ==
  /\ e \in DOMAIN envs
  /\ ret' = [Ret("getAuthConfig", e, "", tenantId, 0, EmptyObject, 0,
                    getAuthConfig(e, tenantId, resourceId))
             EXCEPT !.arg2 = resourceId]
  /\ UNCHANGED <<storeVars, loginVars>>

\* ------------------------------------------------------------ login inputs
\* adalAuth.normalizeUserName: case normalization of the user name.
normalizeUserName(username) ==
  IF username = <<"Alice@Contoso.com">> THEN <<"alice@contoso.com">> ELSE username

Usernames == {<<"Alice@Contoso.com">>, <<"sp1">>}
Passwords == {<<"pw">>}
Tenants == {Undef, <<"tenantX">>}
LoginModes == {False, True}

\* Raw subscription records as the subscription collaborators report them.
Raw(id, displayName, subscriptionName, adTenant) ==
  [subscriptionId |-> id, displayName |-> displayName,
   subscriptionName |-> subscriptionName, activeDirectoryTenantId |-> adTenant]

RawSub1 == Raw(<<"s1">>, <<"Sub1">>, Undef, <<"tenant1">>)
RawSub2 == Raw(<<"s2">>, Undef, <<"Classic2">>, Undef)
RawSub3 == Raw(<<"s3">>, EmptyStr, <<"Classic3">>, EmptyStr)
RawSub4 == Raw(<<"s4">>, <<"Sub4">>, <<"Classic4">>, <<"tenant4">>)

\* What a collaborator reports: an error (with no list, or with a partial one), or
\* a raw subscription list; a token collaborator reports an error or a token.
NoList == <<>>
SubscriptionReports ==
  { [err |-> <<"Error: subscriptions unavailable">>, result |-> NoList],
    [err |-> <<"Error: tenant lookup aborted">>, result |-> <<RawSub1>>],
    [err |-> Null, result |-> NoList],
    [err |-> Null, result |-> <<RawSub1>>],
    [err |-> Null, result |-> <<RawSub2, RawSub3, RawSub4>>] }

Token == <<"token">>
TokenReports ==
  { [err |-> <<"Error: invalid client secret">>, token |-> Undef],
    [err |-> Null, token |-> Token] }

\* Invocations of addAccount and acquireToken in one run.
MaxCalls == 2

\* ------------------------------------------------------------ addAccount
\* One call of a collaborator, and what it has reported so far.
CollaboratorCall(fn, e, username, password, tenant, authConfig, tenantInfos) ==
  [fn |-> fn, env |-> e, username |-> username, password |-> password,
   tenant |-> tenant, authConfig |-> authConfig, tenantInfos |-> tenantInfos,
   reported |-> FALSE, err |-> Undef, result |-> NoList, token |-> Undef]

\* One invocation of the caller's callback: the number of arguments and each.
Callback(nargs, err, subs, token) ==
  [nargs |-> nargs, err |-> err, subs |-> subs, token |-> token]

\* new Subscription(subscriptionData, environment): the fields of the data and
\* the Environment it is bound to.
Subscription(subscriptionData, e) ==
  [id |-> subscriptionData.id, name |-> subscriptionData.name,
   user |-> subscriptionData.user, tenantId |-> subscriptionData.tenantId,
   environment |-> e]

\* The closure variables kept in one place shared by all invocations: every
\* continuation sees those of the invocation started last.
ClosureOfLatest(c) == calls[Len(calls)]

\* The closure of invocation c: username, tenant, userType, self.
Closure(c) == calls[c]

\* The mapping without its two fallbacks.
SubscriptionDataNoFallback(c, s) ==
  [id |-> s.subscriptionId,
   name |-> s.displayName,
   user |-> [name |-> Closure(c).username, tenant |-> Closure(c).tenant,
             type |-> Closure(c).userType],
   tenantId |-> s.activeDirectoryTenantId]

\* The subscriptionData processSubscriptions builds from raw record s in invocation c.
SubscriptionData(c, s) ==
  [id |-> s.subscriptionId,
   name |-> Or(s.displayName, s.subscriptionName),
   user |-> [name |-> Closure(c).username, tenant |-> Closure(c).tenant,
             type |-> Closure(c).userType],
   tenantId |-> IF Truthy(s.activeDirectoryTenantId) THEN s.activeDirectoryTenantId
                ELSE Closure(c).tenant]

\* processSubscriptions without the return in `if (err) { return callback(err); }`.
processSubscriptionsNoReturn(c, err, subscriptions) ==
  (IF Truthy(err) THEN <<Callback(1, err, NoList, Undef)>> ELSE <<>>)
  \o <<Callback(2, Null,
                 [i \in DOMAIN subscriptions |->
                    Subscription(SubscriptionData(c, subscriptions[i]), Closure(c).env)],
                 Undef)>>

\* processSubscriptions(err, subscriptions) in invocation c: the invocations of
\* the caller's callback it makes.
processSubscriptions(c, err, subscriptions) ==
  IF Truthy(err) THEN <<Callback(1, err, NoList, Undef)>>
  ELSE <<Callback(2, Null,
                  [i \in DOMAIN subscriptions |->
                     Subscription(SubscriptionData(c, subscriptions[i]), Closure(c).env)],
                  Undef)>>

\* The branch taken as if loginAsServicePrincipal were never set.
FirstCollaboratorUserOnly(loginAsServicePrincipal) == "getSubscriptions"

\* The collaborator addAccount starts with.
FirstCollaborator(loginAsServicePrincipal) ==
  IF ~Truthy(loginAsServicePrincipal) THEN "getSubscriptions"
  ELSE "acquireServicePrincipalToken"

\* [tenantInfo] as the token continuation builds it.
TenantInfos(c, token) == <<[tenantId |-> Closure(c).tenant, authContext |-> token]>>

\* The record of an invocation: its arguments, the closure variables derived from
\* them, where its continuation chain stands, and the error it threw, if any.
Invocation(op, e, rawUsername, username, password, tenant, mode, userType, pc, thrown) ==
  [op |-> op, env |-> e, rawUsername |-> rawUsername, username |-> username,
   password |-> password, tenant |-> tenant, loginAsServicePrincipal |-> mode,
   userType |-> userType, pc |-> pc, thrown |-> thrown]

\* E.addAccount(username, password, tenant, loginAsServicePrincipal, callback), up
\* to its return: the first collaborator is called, or getAuthConfig throws.
AddAccount(e, rawUsername, password, tenant, loginAsServicePrincipal) ==
  LET username == normalizeUserName(rawUsername)
      userType == IF Truthy(loginAsServicePrincipal) THEN "servicePrincipal" ELSE "user"
      first == FirstCollaborator(loginAsServicePrincipal)
      config == getAuthConfig(e, tenant, Undef)
      inv(pc, thrown) == Invocation("addAccount", e, rawUsername, username, password,
                                    tenant, loginAsServicePrincipal, userType, pc, thrown)
  IN /\ e \in DOMAIN envs
     /\ Len(calls) < MaxCalls
     /\ cbs' = Append(cbs, <<>>)
     /\ IF first = "getSubscriptions"
        THEN /\ calls' = Append(calls, inv(first, Undef))
             /\ collab' = Append(collab,
                  <<CollaboratorCall(first, e, username, password, tenant, NoCfg, <<>>)>>)
        ELSE IF config.threw
        THEN /\ calls' = Append(calls, inv("threw", config.val))
             /\ collab' = Append(collab, <<>>)
        ELSE /\ calls' = Append(calls, inv(first, Undef))
             /\ collab' = Append(collab,
                  <<CollaboratorCall(first, e, username, password, Undef, config.cfg, <<>>)>>)
     /\ UNCHANGED <<storeVars, ret>>

\* The last collaborator call of invocation c, marked as having reported.
Reported(c, err, result, token) ==
  [collab[c] EXCEPT ![Len(collab[c])] =
     [@ EXCEPT !.reported = TRUE, !.err = err, !.result = result, !.token = token]]

\* subscriptionUtils.getSubscriptions reports to processSubscriptions.
GetSubscriptionsReports(c, report) ==
  /\ c \in DOMAIN calls
  /\ calls[c].op = "addAccount"
  /\ calls[c].pc = "getSubscriptions"
  /\ collab' = [collab EXCEPT ![c] = Reported(c, report.err, report.result, Undef)]
  /\ cbs' = [cbs EXCEPT ![c] = @ \o processSubscriptions(c, report.err, report.result)]
  /\ calls' = [calls EXCEPT ![c].pc = "done"]
  /\ UNCHANGED <<storeVars, ret>>

\* adalAuth.acquireServicePrincipalToken reports to the continuation of addAccount.
ServicePrincipalTokenReports(c, report) ==
  /\ c \in DOMAIN calls
  /\ calls[c].op = "addAccount"
  /\ calls[c].pc = "acquireServicePrincipalToken"
  /\ IF Truthy(report.err)
     THEN /\ collab' = [collab EXCEPT ![c] = Reported(c, report.err, NoList, report.token)]
          /\ cbs' = [cbs EXCEPT ![c] = Append(@, Callback(1, report.err, NoList, Undef))]
          /\ calls' = [calls EXCEPT ![c].pc = "done"]
     ELSE /\ collab' = [collab EXCEPT ![c] =
               Append(Reported(c, report.err, NoList, report.token),
                      CollaboratorCall("getSubscriptionsFromTenants", calls[c].env,
                                       Closure(c).username, Undef, Undef, NoCfg,
                                       TenantInfos(c, report.token)))]
          /\ calls' = [calls EXCEPT ![c].pc = "getSubscriptionsFromTenants"]
          /\ UNCHANGED cbs
  /\ UNCHANGED <<storeVars, ret>>

\* subscriptionUtils.getSubscriptionsFromTenants reports to processSubscriptions.
GetSubscriptionsFromTenantsReports(c, report) ==
  /\ c \in DOMAIN calls
  /\ calls[c].op = "addAccount"
  /\ calls[c].pc = "getSubscriptionsFromTenants"
  /\ collab' = [collab EXCEPT ![c] = Reported(c, report.err, report.result, Undef)]
  /\ cbs' = [cbs EXCEPT ![c] = @ \o processSubscriptions(c, report.err, report.result)]
  /\ calls' = [calls EXCEPT ![c].pc = "done"]
  /\ UNCHANGED <<storeVars, ret>>

\* An Environment already constructed from bundle d, nothing in flight.
InitLogin ==
  /\ \E d \in Bundles :
       /\ heap = <<ConstructedValues(d)>>
       /\ envs = <<[name |-> d.name, values |-> 1]>>
  /\ jsonOf = <<0>>
  /\ processEnv = [ev \in EnvVarNames |-> Undef]
  /\ nsets = 0
  /\ ret = Ret("none", 0, "", Undef, 0, EmptyObject, 0, NoOut)
  /\ calls = <<>>
  /\ collab = <<>>
  /\ cbs = <<>>

NextLogin ==
  \/ \E u \in Usernames, pw \in Passwords, t \in Tenants, m \in LoginModes :
       AddAccount(1, u, pw, t, m)
  \/ \E c \in 1..MaxCalls, r \in SubscriptionReports : GetSubscriptionsReports(c, r)
  \/ \E c \in 1..MaxCalls, r \in TokenReports : ServicePrincipalTokenReports(c, r)
  \/ \E c \in 1..MaxCalls, r \in SubscriptionReports :
       GetSubscriptionsFromTenantsReports(c, r)

SpecLogin == InitLogin /\ [][NextLogin]_vars

\* ------------------------------------------------------------ acquireToken
\* The tenant and resource arguments given to getAuthConfig and acquireToken.
AuthTenants == {Undef, EmptyStr, <<"t1">>}
AuthResources == {Undef, <<"r1">>}

\* The parameters getAuthConfig reads, the two of them written, and the values
\* the resource-id variable may hold when the program starts.
AuthParams == {"commonTenantName", "activeDirectoryResourceId"}
AuthEnvVarValues == {Undef, <<"https://env.resource/">>}

\* E.acquireToken(username, password, tenantId, callback), up to its return: the
\* token collaborator is called with the caller's callback, or getAuthConfig throws.
AcquireToken(e, username, password, tenantId) ==
  LET config == getAuthConfig(e, tenantId, Undef)
      inv(pc, thrown) == Invocation("acquireToken", e, username, username, password,
                                    tenantId, Undef, "", pc, thrown)
  IN /\ e \in DOMAIN envs
     /\ Len(calls) < MaxCalls
     /\ cbs' = Append(cbs, <<>>)
     /\ IF config.threw
        THEN /\ calls' = Append(calls, inv("threw", config.val))
             /\ collab' = Append(collab, <<>>)
        ELSE /\ calls' = Append(calls, inv("acquireToken", Undef))
             /\ collab' = Append(collab,
                  <<CollaboratorCall("acquireToken", e, username, password, Undef,
                                     config.cfg, <<>>)>>)
     /\ ret' = Ret("acquireToken", e, "", tenantId, 0, EmptyObject, 0,
                   [threw |-> config.threw, val |-> config.val])
     /\ UNCHANGED storeVars

\* What the caller's callback receives when the token collaborator reports: the
\* callback is handed to the collaborator as it is.
Forwarded(report) == Callback(2, report.err, NoList, report.token)

\* adalAuth.acquireToken reports, to the caller's callback itself.
AcquireTokenReports(c, report) ==
  /\ c \in DOMAIN calls
  /\ calls[c].op = "acquireToken"
  /\ calls[c].pc = "acquireToken"
  /\ collab' = [collab EXCEPT ![c] = Reported(c, report.err, NoList, report.token)]
  /\ cbs' = [cbs EXCEPT ![c] = Append(@, Forwarded(report))]
  /\ calls' = [calls EXCEPT ![c].pc = "done"]
  /\ ret' = Ret("report", calls[c].env, "", Undef, 0, EmptyObject, 0, NoOut)
  /\ UNCHANGED storeVars

\* An Environment already constructed from bundle d; the resource-id variable is
\* set or not.
InitAuth ==
  /\ \E d \in Bundles :
       /\ heap = <<ConstructedValues(d)>>
       /\ envs = <<[name |-> d.name, values |-> 1]>>
  /\ jsonOf = <<0>>
  /\ \E v \in AuthEnvVarValues :
       processEnv = [ev \in EnvVarNames |->
                       IF ev = "AZURE_ACTIVEDIRECTORY_RESOURCE_ID" THEN v ELSE Undef]
  /\ nsets = 0
  /\ ret = Ret("none", 0, "", Undef, 0, EmptyObject, 0, NoOut)
  /\ calls = <<>>
  /\ collab = <<>>
  /\ cbs = <<>>

NextAuth ==
  \/ \E p \in AuthParams, v \in SetValues : Set(1, p, v)
  \/ \E t \in AuthTenants, r \in AuthResources : GetAuthConfig(1, t, r)
  \/ \E pw \in Passwords, t \in Tenants : AcquireToken(1, <<"Alice@Contoso.com">>, pw, t)
  \/ \E c \in 1..MaxCalls, r \in TokenReports : AcquireTokenReports(c, r)

SpecAuth == InitAuth /\ [][NextAuth]_vars

\* ------------------------------------------------------------ the value store
Init ==
  /\ heap = <<>>
  /\ jsonOf = <<>>
  /\ envs = <<>>
  /\ processEnv = [ev \in EnvVarNames |-> Undef]
  /\ nsets = 0
  /\ ret = Ret("none", 0, "", Undef, 0, EmptyObject, 0, NoOut)
  /\ calls = <<>>
  /\ collab = <<>>
  /\ cbs = <<>>

\* No Environment has been constructed on heap object o.
Unused(o) == \A e \in DOMAIN envs : envs[e].values # o

\* Environments built each from a bundle of its own, read and written while the
\* process environment changes.
Next ==
  \/ \E d \in Bundles : NewBundle(d)
  \/ \E o \in 1..MaxObjs : Unused(o) /\ Construct(o)
  \/ \E e \in 1..MaxEnvs, p \in GetParams : Get(e, p)
  \/ \E e \in 1..MaxEnvs, p \in SetParams, v \in SetValues : Set(e, p, v)
  \/ \E ev \in VariedEnvVars, v \in EnvVarValues : SetProcessEnv(ev, v)

Spec == Init /\ [][Next]_vars

\* The realm URLs of such environments.
NextUrl ==
  \/ \E d \in Bundles : NewBundle(d)
  \/ \E o \in 1..MaxObjs : Unused(o) /\ Construct(o)
  \/ \E ev \in VariedEnvVars, v \in EnvVarValues : SetProcessEnv(ev, v)
  \/ \E e \in 1..MaxEnvs, realm \in Realms : GetPortalUrl(e, realm)
  \/ \E e \in 1..MaxEnvs, realm \in Realms : GetPublishingProfileUrl(e, realm)

SpecUrl == Init /\ [][NextUrl]_vars

\* Bundles shared between environments, serialized and fed back to the constructor.
NextJson ==
  \/ \E d \in Bundles : NewBundle(d)
  \/ \E o \in 1..MaxObjs : Construct(o)
  \/ \E e \in 1..MaxEnvs, p \in SetParams, v \in SetValues : Set(e, p, v)
  \/ \E e \in 1..MaxEnvs : ToJSON(e)
  \/ \E ev \in VariedEnvVars, v \in EnvVarValues : SetProcessEnv(ev, v)

SpecJson == Init /\ [][NextJson]_vars

\* ------------------------------------------------------------ properties
\* The environment variable bound to parameter p is set and non-empty.
EnvVarSet(p) == processEnv[EnvVarOf(p)] \notin {Undef, EmptyStr}

\* What a read of p resolves to from the stored value alone.
FromStored(e, p) ==
  IF values(e)[p] = Null THEN Thrown(EndpointError(p)) ELSE Returned(values(e)[p])

\* A read returns the environment variable when it is set and non-empty, whatever
\* is stored, and resolves from the stored value otherwise.
C1_ReadPrecedence ==
  ret.op = "get" =>
    IF EnvVarSet(ret.key)
    THEN ~ret.threw /\ ret.val = processEnv[EnvVarOf(ret.key)]
    ELSE [threw |-> ret.threw, val |-> ret.val] = FromStored(ret.env, ret.key)

\* A write changes the stored value of that one parameter and nothing else: no
\* other key, no other object, no environment variable.
C1_WriteStoredOnly ==
  ret'.op = "set" =>
    /\ processEnv' = processEnv
    /\ envs' = envs
    /\ DOMAIN heap' = DOMAIN heap
    /\ heap'[envs[ret'.env].values][ret'.key] = ret'.arg
    /\ \A o \in DOMAIN heap, k \in Keys :
         (o # envs[ret'.env].values \/ k # ret'.key) => heap'[o][k] = heap[o][k]

\* C1: for every registered parameter P and Environment E, in any state reached by
\* any sequence of writes, reading E.P returns the bound environment variable when
\* that is set and non-empty, regardless of the stored value, and otherwise
\* resolves from the stored value; a write changes only the stored layer, never
\* the environment-variable layer.
C1_EnvVarWins == [] C1_ReadPrecedence /\ [][C1_WriteStoredOnly]_vars

\* A read answered by the environment variable over a conflicting value that a
\* write stored after construction.
C1_Witness ==
  /\ ret.op = "get"
  /\ EnvVarSet(ret.key)
  /\ nsets > 0
  /\ values(ret.env)[ret.key] = X
  /\ ret.val = processEnv[EnvVarOf(ret.key)]

\* C2: validation is lazy. Constructing an Environment from a bundle that omits
\* any of the registered parameters does not fail, and every parameter the bundle
\* omitted, its environment variable being absent or empty, fails with the
\* endpoint-not-defined error when it is read; once "x" has been written to a
\* parameter, reading it returns "x".
C2_LazyValidation ==
  /\ ret.op = "construct" =>
       /\ ~ret.threw
       /\ \A p \in ParamNames :
            (ret.given[p] = Undef /\ ~EnvVarSet(p))
              => get(ret.env, p) = Thrown(EndpointError(p))
  /\ (ret.op = "set" /\ ret.arg = X /\ ~EnvVarSet(ret.key))
       => get(ret.env, ret.key) = Returned(X)

\* An Environment just constructed from a bundle that supplies some parameters
\* and omits others.
C2_Witness ==
  /\ ret.op = "construct"
  /\ \E p \in ParamNames : ret.given[p] = Undef /\ ~EnvVarSet(p)
  /\ \E p \in ParamNames : ret.given[p] # Undef

\* The last operation was getPortalUrl or getPublishingProfileUrl and returned.
RealmUrlReturned ==
  ret.op \in {"getPortalUrl", "getPublishingProfileUrl"} /\ ~ret.threw

\* The resolved base URL that operation started from.
BaseUrl == get(ret.env, ret.key).val

\* The entries of a parsed query.
Entries(query) == {query[i] : i \in DOMAIN query}

Whr == <<"whr">>

\* C7: getPortalUrl(realm) and getPublishingProfileUrl(realm) return the resolved
\* base URL unchanged when realm is falsy; when realm is supplied the query string
\* of the returned URL holds whr=<realm> (once, replacing a whr the base URL had),
\* every other query parameter of the base URL is kept, nothing else is added, and
\* what precedes the query and the fragment are those of the base URL.
C7_RealmAdded ==
  RealmUrlReturned =>
    IF ~Truthy(ret.arg) THEN ret.val = BaseUrl
    ELSE LET before == urlParse(BaseUrl)
             after == urlParse(ret.val)
         IN /\ Cardinality({i \in DOMAIN after.query : after.query[i].k = Whr}) = 1
            /\ [k |-> Whr, v |-> ret.arg] \in Entries(after.query)
            /\ {q \in Entries(before.query) : q.k # Whr}
                 = {q \in Entries(after.query) : q.k # Whr}
            /\ after.base = before.base
            /\ after.hash = before.hash

\* C7 as claimed: with a realm, the pre-existing query string is dropped, so that
\* whr=<realm> is all the query string of the returned URL holds.
C7_QueryDropped ==
  RealmUrlReturned =>
    IF ~Truthy(ret.arg) THEN ret.val = BaseUrl
    ELSE Entries(urlParse(ret.val).query) = {[k |-> Whr, v |-> ret.arg]}

\* A realm added to a base URL whose query string has a whr and another parameter.
C7_Witness ==
  /\ RealmUrlReturned
  /\ Truthy(ret.arg)
  /\ \E q \in Entries(urlParse(BaseUrl).query) : q.k = Whr /\ q.v # ret.arg
  /\ \E q \in Entries(urlParse(BaseUrl).query) : q.k # Whr

\* C6: toJSON() emits the environment's name plus the raw stored values, never
\* the values resolved through the environment variables, whatever the process
\* environment holds and whatever has been written; and an Environment
\* constructed from the result has a values map equal, key by key, to that of
\* the Environment serialized.
C6_RoundTrip ==
  /\ ret.op = "toJSON" =>
       heap[ret.obj] = [k \in Keys |-> IF k = "name" THEN envs[ret.env].name
                                       ELSE values(ret.env)[k]]
  /\ (ret.op = "construct" /\ ret.src # 0) =>
       /\ ret.env # ret.src
       /\ \A k \in Keys : values(ret.env)[k] = values(ret.src)[k]

\* An Environment rebuilt from the toJSON() result of one that was written to,
\* while the environment variable of a parameter is set.
C6_Witness ==
  /\ ret.op = "construct"
  /\ ret.src # 0
  /\ \E p \in SetParams : values(ret.src)[p] = X
  /\ EnvVarSet("portalUrl")

\* C8: the constructor and the accessors leave the caller's bundle as it was
\* passed (no key added or overwritten), and two Environments constructed from
\* the same bundle keep separate stored values.
C8_BundleUntouched ==
  /\ ret.op = "construct" => heap[ret.obj] = ret.given
  /\ \A e1, e2 \in DOMAIN envs : e1 # e2 => envs[e1].values # envs[e2].values

\* ------------------------------------------------------------ login properties
AddAccountCalls == {c \in DOMAIN calls : calls[c].op = "addAccount"}

\* The last collaborator call of invocation c.
LastCall(c) == collab[c][Len(collab[c])]

\* Entry i of invocation c's collaborator calls has reported an error.
ReportedError(c, i) == collab[c][i].reported /\ Truthy(collab[c][i].err)

\* C3: when a collaborator of an addAccount invocation reports an error, the
\* caller's callback is invoked exactly once, with that error as its only
\* argument and no subscription list, and no further collaborator is called; in
\* particular a failed token acquisition is never followed by a subscription lookup.
C3_ErrorPropagated ==
  \A c \in AddAccountCalls : \A i \in DOMAIN collab[c] :
    ReportedError(c, i) =>
      /\ i = Len(collab[c])
      /\ cbs[c] = <<Callback(1, collab[c][i].err, NoList, Undef)>>
      /\ collab[c][i].fn = "acquireServicePrincipalToken" =>
           \A j \in DOMAIN collab[c] :
             collab[c][j].fn \notin {"getSubscriptions", "getSubscriptionsFromTenants"}

\* One invocation ended by a failed token acquisition, another by a subscription
\* lookup that failed while reporting a partial list.
C3_Witness ==
  /\ \E c \in AddAccountCalls :
       /\ Len(collab[c]) = 1
       /\ ReportedError(c, 1)
       /\ collab[c][1].fn = "acquireServicePrincipalToken"
  /\ \E c \in AddAccountCalls :
       /\ collab[c] # <<>>
       /\ ReportedError(c, Len(collab[c]))
       /\ LastCall(c).fn = "getSubscriptionsFromTenants"
       /\ LastCall(c).result # NoList

\* A value is present: neither missing nor empty.
Present(v) == v \notin {Undef, Null, EmptyStr}

\* The user block every Subscription of invocation c is to carry.
OwnUser(c) ==
  [name |-> normalizeUserName(calls[c].rawUsername),
   tenant |-> calls[c].tenant,
   type |-> IF calls[c].loginAsServicePrincipal \in {Undef, Null, False, EmptyStr}
            THEN "user" ELSE "servicePrincipal"]

\* C4: on a successful addAccount the callback receives (null, subs), subs having
\* the length and order of the raw list the collaborator reported, and for every
\* i: id is raw[i].subscriptionId, name is raw[i].displayName if present else
\* raw[i].subscriptionName, user is {the normalized username, the tenant argument,
\* 'servicePrincipal' or 'user' by loginAsServicePrincipal}, tenantId is
\* raw[i].activeDirectoryTenantId if present else the tenant argument, and the
\* Subscription is bound to the Environment addAccount was called on.
C4_SubscriptionsMapped ==
  \A c \in AddAccountCalls :
    (calls[c].pc = "done" /\ ~Truthy(LastCall(c).err)) =>
      /\ Len(cbs[c]) = 1
      /\ cbs[c][1].nargs = 2
      /\ cbs[c][1].err = Null
      /\ LET subs == cbs[c][1].subs
             raw == LastCall(c).result
         IN /\ Len(subs) = Len(raw)
            /\ \A i \in DOMAIN raw :
                 /\ subs[i].id = raw[i].subscriptionId
                 /\ subs[i].name = IF Present(raw[i].displayName) THEN raw[i].displayName
                                   ELSE raw[i].subscriptionName
                 /\ subs[i].user = OwnUser(c)
                 /\ subs[i].tenantId = IF Present(raw[i].activeDirectoryTenantId)
                                       THEN raw[i].activeDirectoryTenantId
                                       ELSE calls[c].tenant
                 /\ subs[i].environment = calls[c].env

\* A service-principal login that succeeded with a list of three records, some
\* of them without a display name or a directory tenant of their own.
C4_Witness ==
  \E c \in AddAccountCalls :
    /\ calls[c].pc = "done"
    /\ calls[c].loginAsServicePrincipal = True
    /\ calls[c].rawUsername # calls[c].username
    /\ ~Truthy(LastCall(c).err)
    /\ Len(cbs[c][1].subs) = 3
    /\ \E i \in DOMAIN LastCall(c).result :
         ~Present(LastCall(c).result[i].activeDirectoryTenantId)

\* C5: addAccount follows one of two collaborator sequences. With a falsy
\* loginAsServicePrincipal it calls getSubscriptions(environment, normalized
\* username, password, tenant) and nothing else. With a truthy one it calls
\* acquireServicePrincipalToken with getAuthConfig(tenant) (or throws while
\* deriving it, having called nothing), and only once that call has reported
\* success calls getSubscriptionsFromTenants with [{tenantId: tenant,
\* authContext: the token}]; getSubscriptions is never called on that path. The
\* callback is not invoked before the last collaborator called has reported.
C5_CollaboratorSequence ==
  \A c \in AddAccountCalls :
    LET a == calls[c]
        log == collab[c]
        u == normalizeUserName(a.rawUsername)
    IN /\ IF a.loginAsServicePrincipal \in {Undef, Null, False, EmptyStr}
          THEN /\ Len(log) = 1
               /\ log[1].fn = "getSubscriptions"
               /\ log[1].env = a.env
               /\ log[1].username = u
               /\ log[1].password = a.password
               /\ log[1].tenant = a.tenant
          ELSE /\ Len(log) <= 2
               /\ \A i \in DOMAIN log : log[i].fn # "getSubscriptions"
               /\ (log = <<>>) = (a.pc = "threw")
               /\ a.pc = "threw" => getAuthConfig(a.env, a.tenant, Undef).threw
               /\ Len(log) >= 1 =>
                    /\ log[1].fn = "acquireServicePrincipalToken"
                    /\ log[1].authConfig = getAuthConfig(a.env, a.tenant, Undef).cfg
                    /\ log[1].username = u
                    /\ log[1].password = a.password
                    /\ (Len(log) = 2) = (log[1].reported /\ ~Truthy(log[1].err))
               /\ Len(log) = 2 =>
                    /\ log[2].fn = "getSubscriptionsFromTenants"
                    /\ log[2].env = a.env
                    /\ log[2].username = u
                    /\ log[2].tenantInfos =
                         <<[tenantId |-> a.tenant, authContext |-> log[1].token]>>
       /\ cbs[c] # <<>> => (log # <<>> /\ log[Len(log)].reported)

\* A service-principal login whose token was acquired and whose subscription
\* lookup has been called and has not reported yet.
C5_Witness ==
  \E c \in AddAccountCalls :
    /\ calls[c].loginAsServicePrincipal = True
    /\ Len(collab[c]) = 2
    /\ ~collab[c][2].reported
    /\ cbs[c] = <<>>

\* What the callback of invocation c has received is built from its own
\* arguments and from what its own collaborator reported.
OwnResult(c) ==
  LET cb == cbs[c][1]
      last == LastCall(c)
  IN IF cb.nargs = 1 THEN cb.err = last.err /\ Truthy(last.err)
     ELSE /\ cb.err = Null
          /\ Len(cb.subs) = Len(last.result)
          /\ \A i \in DOMAIN cb.subs :
               /\ cb.subs[i].id = last.result[i].subscriptionId
               /\ cb.subs[i].user = OwnUser(c)
               /\ cb.subs[i].tenantId \in
                    {last.result[i].activeDirectoryTenantId, calls[c].tenant}
               /\ cb.subs[i].environment = calls[c].env

C10_EachOnceFromOwn ==
  \A c \in AddAccountCalls :
    /\ Len(cbs[c]) <= 1
    /\ (calls[c].pc = "done") = (Len(cbs[c]) = 1)
    /\ Len(cbs[c]) = 1 => OwnResult(c)

C10_StoreUntouched == heap' = heap /\ envs' = envs /\ processEnv' = processEnv

\* C10: addAccount invocations in flight together on one Environment are
\* independent. Under any interleaving of their collaborators' reports, the
\* callback of each is invoked at most once, and exactly once when its chain has
\* ended, with results built only from that invocation's own username, tenant and
\* user type and from what its own collaborator reported; and no step of any
\* invocation changes the Environment's stored values.
C10_Independent == [] C10_EachOnceFromOwn /\ [][C10_StoreUntouched]_vars

\* Two invocations that differ in username, tenant and login mode: the one
\* started first is still waiting for its subscription lookup while the one
\* started second has delivered a non-empty list.
C10_Witness ==
  /\ Len(calls) >= 2
  /\ calls[1].rawUsername # calls[2].rawUsername
  /\ calls[1].tenant # calls[2].tenant
  /\ calls[1].loginAsServicePrincipal # calls[2].loginAsServicePrincipal
  /\ calls[1].pc = "getSubscriptionsFromTenants"
  /\ calls[2].pc = "done"
  /\ Len(cbs[2]) = 1
  /\ cbs[2][1].subs # NoList

\* ------------------------------------------------------------ auth properties
\* The AuthConfig for tenant and resource arguments t and r on environment e,
\* each parameter resolved by a read.
ExpectedAuthConfig(e, t, r) ==
  [authorityUrl |-> get(e, "activeDirectoryEndpointUrl").val,
   tenantId |-> IF Present(t) THEN t ELSE get(e, "commonTenantName").val,
   resourceId |-> IF Present(r) THEN r ELSE get(e, "activeDirectoryResourceId").val,
   clientId |-> XPLAT_CLI_CLIENT_ID]

\* The parameters getAuthConfig(t, r) has to resolve.
AuthReads(t, r) ==
  {"activeDirectoryEndpointUrl"}
    \cup (IF Present(t) THEN {} ELSE {"commonTenantName"})
    \cup (IF Present(r) THEN {} ELSE {"activeDirectoryResourceId"})

C9_Config ==
  ret.op = "getAuthConfig" =>
    IF \E p \in AuthReads(ret.arg, ret.arg2) : get(ret.env, p).threw
    THEN /\ ret.threw
         /\ \E p \in AuthReads(ret.arg, ret.arg2) : ret.val = EndpointError(p)
    ELSE ~ret.threw /\ ret.cfg = ExpectedAuthConfig(ret.env, ret.arg, ret.arg2)

C9_TokenCall ==
  (ret.op = "acquireToken" /\ ~ret.threw) =>
    LET c == Len(calls)
    IN /\ Len(collab[c]) = 1
       /\ collab[c][1].fn = "acquireToken"
       /\ collab[c][1].authConfig = ExpectedAuthConfig(ret.env, ret.arg, Undef)
       /\ collab[c][1].username = calls[c].rawUsername
       /\ collab[c][1].password = calls[c].password

C9_Forwarded ==
  \A c \in DOMAIN calls : calls[c].op = "acquireToken" =>
    IF collab[c] # <<>> /\ collab[c][1].reported
    THEN cbs[c] = <<Callback(2, collab[c][1].err, NoList, collab[c][1].token)>>
    ELSE cbs[c] = <<>>

C9_NoWrite ==
  ret'.op \in {"getAuthConfig", "acquireToken", "report"} =>
    heap' = heap /\ envs' = envs /\ processEnv' = processEnv

\* C9: getAuthConfig(tenantId, resourceId) returns {authorityUrl: the resolved
\* activeDirectoryEndpointUrl, tenantId, resourceId, clientId: the one client-id
\* constant}, tenantId being the argument when one is supplied and the resolved
\* commonTenantName otherwise, resourceId the argument when supplied and the
\* resolved activeDirectoryResourceId otherwise (it throws when a parameter it
\* has to resolve is undefined); it leaves the stored values unchanged; and
\* acquireToken passes getAuthConfig(tenantId), the username and the password to
\* the token collaborator, whose error or token reaches the callback unchanged.
C9_AuthConfig ==
  [] (C9_Config /\ C9_TokenCall /\ C9_Forwarded) /\ [][C9_NoWrite]_vars

\* getAuthConfig() defaulting both fields on an Environment that was written to.
C9_Witness ==
  /\ ret.op = "getAuthConfig"
  /\ ~ret.threw
  /\ ~Present(ret.arg)
  /\ ~Present(ret.arg2)
  /\ nsets > 0
  /\ ret.cfg.tenantId = X
  /\ \E c \in DOMAIN calls : calls[c].op = "acquireToken" /\ Len(cbs[c]) = 1

\* ------------------------------------------------------------ error message
\* The message msg contains the name given as the token sequence name.
Names(msg, name) ==
  \E i \in 1..(Len(msg) - Len(name) + 1) :
    \A j \in DOMAIN name : msg[i + j - 1] = name[j]

\* C11: the endpoint-not-defined error raised by a read of parameter P of
\* environment E, the environment variable of P being absent and the stored
\* value of P being absent, names both the parameter P and the environment E.
C11_ErrorNamesBoth ==
  (ret.op = "get" /\ ret.threw /\ ~EnvVarSet(ret.key)
     /\ values(ret.env)[ret.key] = Null) =>
    /\ Names(ret.val, <<ret.key>>)
    /\ Names(ret.val, envs[ret.env].name)

====
